---------------------------- MODULE Spec2Model ----------------------------
(***************************************************************************)
(* LeadHunt: the account-session and quota-governance core of main.py.     *)
(*                                                                         *)
(* Time is the wall clock in whole seconds since the epoch (datetime.now   *)
(* read once per call).  The counter/flag store is either the shared       *)
(* expiring store (redis) or the in-process dictionaries, fixed by the     *)
(* configuration (REDIS_URL) for a whole behaviour.                        *)
(***************************************************************************)
EXTENDS Integers, Sequences, FiniteSets, TLC

VARIABLES
    now,            \* datetime.now(timezone.utc), in seconds
    backend,        \* "redis" when get_redis() returns a client, else "memory"
    redis,          \* the shared store: key -> [val, exp]
    memory_cap,     \* _memory_cap: key -> count
    pause_until,    \* _pause_until: key -> timestamp
    last_ret,       \* history: outcome of the last enforce_internal_cap call
    calls_hour,     \* history: enforce_internal_cap calls made in the current hour bucket
    last_pause,     \* history: clock of the most recent pause_user call, -1 if none
    ticks,          \* history: number of clock advances so far
    req,            \* the requests in flight: request -> its handler's frame
    sessions,       \* sessions/<safe>.enc: slot -> ciphertext
    recent,         \* the slots ordered by modification time, latest last
    user_map,       \* sessions/__user_1.txt: the last connected handle
    fernet_key,     \* FERNET_KEY of the environment
    avail,          \* the query methods the upstream client has (hasattr)
    started,        \* history: number of requests started so far
    chal_time       \* history: clock at which a request that met a challenge returned

govVars == <<now, backend, redis, memory_cap, pause_until>>
histVars == <<last_ret, calls_hour, last_pause, ticks>>
reqVars == <<req, sessions, recent, user_map, fernet_key, avail, started, chal_time>>
vars == <<govVars, histVars, reqVars>>

---------------------------------------------------------------------------
(* Program constants *)

UserId == 1             \* request.state.user_id set by mock_auth_middleware
HourlyCap == 60         \* if hour_count > 60
DailyCap == 200         \* if day_count > 200
HourSeconds == 3600     \* one "%Y%m%d%H" bucket; also expire(hour_key_name, 3600)
DaySeconds == 86400     \* one "%Y%m%d" bucket; also expire(day_key_name, 86400)
PauseTTL == 86400       \* setex(key, 86400, "1") / timestamp() + 86400
NoExpiry == -1          \* a redis key without a time to live

(* Bounds of the model *)

MaxHourCount == 62      \* calls are explored until the hour counter reaches this
MaxCapTicks == 3        \* clock advances explored by SpecCap
MaxPauseTicks == 5      \* clock advances explored by SpecPause

---------------------------------------------------------------------------
(* Dictionaries (Python dict / redis keyspace) as functions on their keys *)

Get(d, k, default) == IF k \in DOMAIN d THEN d[k] ELSE default

Put(d, k, v) == [x \in (DOMAIN d) \cup {k} |-> IF x = k THEN v ELSE d[x]]

Restrict(d, S) == [x \in (DOMAIN d) \cap S |-> d[x]]

EmptyDict == [x \in {} |-> 0]

(* strftime("%Y%m%d%H") and strftime("%Y%m%d"): the date, and the hour of the day *)
HourKey(t) == <<t \div DaySeconds, (t % DaySeconds) \div HourSeconds>>

DayKey(t) == <<t \div DaySeconds>>

HourKeyName(user_id, t) == <<"cap", user_id, HourKey(t)>>

DayKeyName(user_id, t) == <<"capday", user_id, DayKey(t)>>

PauseKey(user_id) == <<"pause", user_id>>

---------------------------------------------------------------------------
(* The shared store: INCR, EXPIRE, SETEX, EXISTS with expiry deadlines *)

RedisLive(store, k, t) ==
    /\ k \in DOMAIN store
    /\ (store[k].exp = NoExpiry \/ store[k].exp > t)

RedisIncr(store, k, t) ==
    IF RedisLive(store, k, t)
    THEN Put(store, k, [val |-> store[k].val + 1, exp |-> store[k].exp])
    ELSE Put(store, k, [val |-> 1, exp |-> NoExpiry])

RedisExpire(store, k, ttl, t) ==
    IF RedisLive(store, k, t)
    THEN Put(store, k, [val |-> store[k].val, exp |-> t + ttl])
    ELSE store

RedisSetex(store, k, ttl, v, t) == Put(store, k, [val |-> v, exp |-> t + ttl])

RedisExists(store, k, t) == IF RedisLive(store, k, t) THEN 1 ELSE 0

(* Keys whose deadline has passed are removed by the store *)
RedisPurge(store, t) == Restrict(store, {k \in DOMAIN store : RedisLive(store, k, t)})

(* Counter names embed their bucket and the clock never goes back, so an   *)
(* entry of an earlier bucket is never read again: the model drops it.     *)
MemoryPurge(mem, t) ==
    Restrict(mem, {HourKeyName(UserId, t), DayKeyName(UserId, t)})

---------------------------------------------------------------------------
(* enforce_internal_cap: returns the stores after the call and the outcome *)
(* "ok", "hourly" (429 Hourly request cap exceeded) or "daily" (429 Daily  *)
(* request cap exceeded).                                                  *)

CapRedisDay(store, user_id, t) ==
    LET s1 == RedisIncr(store, DayKeyName(user_id, t), t)
        day_count == s1[DayKeyName(user_id, t)].val
        s2 == IF day_count = 1
              THEN RedisExpire(s1, DayKeyName(user_id, t), DaySeconds, t)
              ELSE s1
    IN  [store |-> s2, ret |-> IF day_count > DailyCap THEN "daily" ELSE "ok"]

CapRedis(store, user_id, t) ==
    LET s1 == RedisIncr(store, HourKeyName(user_id, t), t)
        hour_count == s1[HourKeyName(user_id, t)].val
        s2 == IF hour_count = 1
              THEN RedisExpire(s1, HourKeyName(user_id, t), HourSeconds, t)
              ELSE s1
    IN  IF hour_count > HourlyCap
        THEN [store |-> s2, ret |-> "hourly"]
        ELSE CapRedisDay(s2, user_id, t)

CapMemoryDay(mem, user_id, t) ==
    LET day_count == Get(mem, DayKeyName(user_id, t), 0) + 1
        m1 == Put(mem, DayKeyName(user_id, t), day_count)
    IN  [store |-> m1, ret |-> IF day_count > DailyCap THEN "daily" ELSE "ok"]

(* Mutant: the ceiling is tested before the new count is stored *)
CapMemory_RejectUncounted(mem, user_id, t) ==
    LET hour_count == Get(mem, HourKeyName(user_id, t), 0) + 1
    IN  IF hour_count > HourlyCap
        THEN [store |-> mem, ret |-> "hourly"]
        ELSE CapMemoryDay(Put(mem, HourKeyName(user_id, t), hour_count), user_id, t)

CapMemory(mem, user_id, t) ==
    LET hour_count == Get(mem, HourKeyName(user_id, t), 0) + 1
        m1 == Put(mem, HourKeyName(user_id, t), hour_count)
    IN  IF hour_count > HourlyCap
        THEN [store |-> m1, ret |-> "hourly"]
        ELSE CapMemoryDay(m1, user_id, t)

(* The counters as the store in use holds them *)
HourCount(user_id) ==
    IF backend = "redis"
    THEN IF RedisLive(redis, HourKeyName(user_id, now), now)
         THEN redis[HourKeyName(user_id, now)].val ELSE 0
    ELSE Get(memory_cap, HourKeyName(user_id, now), 0)

DayCount(user_id) ==
    IF backend = "redis"
    THEN IF RedisLive(redis, DayKeyName(user_id, now), now)
         THEN redis[DayKeyName(user_id, now)].val ELSE 0
    ELSE Get(memory_cap, DayKeyName(user_id, now), 0)

(* The state change of one enforce_internal_cap(user_id) call; ret is its outcome *)
EnforceInternalCap(user_id, ret) ==
    IF backend = "redis"
    THEN /\ redis' = CapRedis(redis, user_id, now).store
         /\ ret = CapRedis(redis, user_id, now).ret
         /\ UNCHANGED memory_cap
    ELSE /\ memory_cap' = CapMemory(memory_cap, user_id, now).store
         /\ ret = CapMemory(memory_cap, user_id, now).ret
         /\ UNCHANGED redis

---------------------------------------------------------------------------
(* is_paused / pause_user *)

(* Mutant: the flag is still live at the instant it expires *)
IsPausedAt_Inclusive(user_id, t) ==
    IF backend = "redis"
    THEN RedisExists(redis, PauseKey(user_id), t) = 1
    ELSE Get(pause_until, PauseKey(user_id), 0) >= t

IsPausedAt(user_id, t) ==
    IF backend = "redis"
    THEN RedisExists(redis, PauseKey(user_id), t) = 1
    ELSE Get(pause_until, PauseKey(user_id), 0) > t

is_paused(user_id) == IsPausedAt(user_id, now)

pause_user(user_id) ==
    IF backend = "redis"
    THEN /\ redis' = RedisSetex(redis, PauseKey(user_id), PauseTTL, "1", now)
         /\ UNCHANGED pause_until
    ELSE /\ pause_until' = Put(pause_until, PauseKey(user_id), now + PauseTTL)
         /\ UNCHANGED redis

---------------------------------------------------------------------------
(* The clock *)

Advance(t) ==
    /\ t > now
    /\ now' = t
    /\ redis' = RedisPurge(redis, t)
    /\ memory_cap' = MemoryPurge(memory_cap, t)
    /\ ticks' = ticks + 1
    /\ calls_hour' = IF HourKey(t) = HourKey(now) THEN calls_hour ELSE 0
    /\ UNCHANGED <<backend, pause_until, last_ret, last_pause>>

GovInit ==
    /\ now = 0
    /\ backend \in {"redis", "memory"}
    /\ redis = EmptyDict
    /\ memory_cap = EmptyDict
    /\ pause_until = EmptyDict
    /\ last_ret = "none"
    /\ calls_hour = 0
    /\ last_pause = -1
    /\ ticks = 0

---------------------------------------------------------------------------
(* The upstream client's failures.  An exception has a class (kind) and a  *)
(* message; the message is modelled by the set of marker substrings that   *)
(* str(exc) contains.  The two classifiers read the message only.          *)

NoExc == [kind |-> "none", msg |-> {}]

Exc(kind, msg) == [kind |-> kind, msg |-> msg]

is_retryable_server_error(exc) ==
    "Server Error" \in exc.msg \/ "status code 5" \in exc.msg

is_media_validation_error(err) ==
    \/ ("validation error" \in err.msg /\ "Media" \in err.msg)
    \/ "clips_metadata" \in err.msg
    \/ "audio_filter_infos" \in err.msg
    \/ "image_versions2" \in err.msg
    \/ "scans_profile" \in err.msg

(* handle_ig_exception: the HTTPException it raises, or NoRet when it      *)
(* returns normally                                                        *)
NoRet == [status |-> 0, detail |-> "none"]

Http(status, detail) == [status |-> status, detail |-> detail]

handle_ig_exception(exc) ==
    CASE exc.kind = "ClientThrottledError" -> Http(429, "Instagram rate limit")
      [] exc.kind = "ChallengeRequired" -> Http(401, "Instagram challenge required")
      [] exc.kind = "ClientLoginRequired" -> Http(401, "Instagram login required")
      [] exc.kind = "LoginRequired" -> Http(401, "Instagram login required")
      [] OTHER -> NoRet

---------------------------------------------------------------------------
(* get_hashtag_medias: the ordered query variants *)

methods ==
    << [name |-> "hashtag_medias_recent", tab_key |-> "none"],
       [name |-> "hashtag_medias_recent_v1", tab_key |-> "none"],
       [name |-> "hashtag_medias_v1", tab_key |-> "recent"],
       [name |-> "hashtag_medias_v1", tab_key |-> "top"],
       [name |-> "hashtag_medias_top_v1", tab_key |-> "none"] >>

MethodNames == {methods[i].name : i \in 1..Len(methods)}

hasattr(name) == name \in avail

(* The first variant at or after position i that the client has; beyond    *)
(* the list when there is none (the for loop ends).                        *)
NextVariant(i) ==
    LET C == {j \in i..Len(methods) : hasattr(methods[j].name)}
    IN  IF C = {} THEN Len(methods) + 1
        ELSE CHOOSE j \in C : \A k \in C : j <= k

---------------------------------------------------------------------------
(* Raw media records: a typed object, an untyped mapping, or neither.  A   *)
(* missing id or count is 0 (the code tests "not user_id", "x or 0").      *)

Media(shape, pk, like, comment) ==
    [shape |-> shape, pk |-> pk, like_count |-> like, comment_count |-> comment]

get_media_user_pk(media) ==
    IF media.shape \in {"obj", "dict"} THEN media.pk ELSE 0

get_media_like_count(media) ==
    IF media.shape \in {"obj", "dict"} THEN media.like_count ELSE 0

get_media_comment_count(media) ==
    IF media.shape \in {"obj", "dict"} THEN media.comment_count ELSE 0

(* Accounts as the upstream knows them: user_info(pk).follower_count *)
FollowerCount(pk) ==
    CASE pk % 8 = 0 -> 0
      [] pk % 8 = 1 -> 1000
      [] pk % 8 = 2 -> 10000
      [] pk % 8 = 3 -> 999
      [] pk % 8 = 7 -> 20000000
      [] OTHER -> 5000

UserInfo(pk) == [username |-> pk, follower_count |-> FollowerCount(pk)]

(* A page of typed media of the accounts lo..hi, one each *)
Page(lo, hi) == [i \in 1..(hi - lo + 1) |-> Media("obj", lo + i - 1, 100, 20)]

(* A page of mixed shapes: a mapping, a record without owner, a record of  *)
(* neither shape, the same account again, and a mapping without counts     *)
MixedPage ==
    << Media("dict", 1, 100, 20), Media("obj", 0, 5, 5), Media("other", 7, 1, 1),
       Media("obj", 1, 900, 100), Media("dict", 2, 0, 0) >>

---------------------------------------------------------------------------
(* Cipher (Fernet) and session vault *)

NoKey == "none"

NoSession == [mock |-> FALSE, owner |-> <<>>]

MockSession == [mock |-> TRUE, owner |-> <<>>]

(* client.get_settings() of a client logged in, or restored, as handle *)
Settings(handle) == [mock |-> FALSE, owner |-> handle]

(* encrypt_session: the token carries the key it was made with *)
encrypt_session(session_dict) == [key |-> fernet_key, payload |-> session_dict]

(* decrypt_session succeeds on a token made with the configured key *)
CanDecrypt(encrypted) == fernet_key # NoKey /\ encrypted.key = fernet_key

decrypt_session(encrypted) == encrypted.payload

MOCK_IG_USERNAME == <<"d", "e", "m", "o", ".", "i", "g", "h", "a", "n", "d", "l", "e">>

(* get_session_path: the handle without its "@" characters names the slot *)
get_session_path(username) == SelectSeq(username, LAMBDA c : c # "@")

(* Writing a slot stores the text and makes the slot the latest modified *)
WriteSlot(files, slot, text) == Put(files, slot, text)

Touch(order, slot) == Append(SelectSeq(order, LAMBDA s : s # slot), slot)

(* str.strip(), str.lstrip("#") and the [:3] slice, on sequences of characters *)
RECURSIVE LStrip(_, _)
LStrip(s, c) == IF s # <<>> /\ Head(s) = c THEN LStrip(Tail(s), c) ELSE s

RECURSIVE RStrip(_, _)
RStrip(s, c) ==
    IF s # <<>> /\ s[Len(s)] = c THEN RStrip(SubSeq(s, 1, Len(s) - 1), c) ELSE s

Strip(s) == RStrip(LStrip(s, " "), " ")

FirstN(s, n) == SubSeq(s, 1, IF Len(s) < n THEN Len(s) ELSE n)

(* load_last_username: the stripped text, None (the empty handle) if absent or empty *)
load_last_username == Strip(user_map)

(* get_latest_session_username: the stem of the latest modified slot *)
get_latest_session_username ==
    IF recent = <<>> THEN <<>> ELSE recent[Len(recent)]

---------------------------------------------------------------------------
(* Requests.  The endpoints are synchronous handlers that the server runs  *)
(* on worker threads, so requests of the one caller (user_id 1) overlap.   *)
(* A handler is modelled step by step, one step per upstream call, with    *)
(* the code up to the next upstream call as part of the step.  The        *)
(* per-address limiter of search ("3/hour") rejects before the handler     *)
(* runs; the searches explored within one hour stay within it.             *)

Reqs == {1, 2}

Cap == 20               \* if len(results) >= 20
Retries == 2            \* login_with_retry(..., retries: int = 2)
MaxTags == 3            \* hashtags[:3]

HASHTAG_MAP ==
    [n \in {"fitness", "beauty", "travel", "food"} |->
        CASE n = "fitness" -> <<"fitness", "workout", "gym">>
          [] n = "beauty" -> <<"beauty", "skincare", "makeup">>
          [] n = "travel" -> <<"travel", "wanderlust", "travelgram">>
          [] n = "food" -> <<"food", "foodie", "foodporn">>]

(* [t.strip().lstrip("#") for t in tags.split(",") if t.strip()][:3]; tags *)
(* is given as the sequence of its comma-separated pieces                  *)
CustomHashtags(tags) ==
    LET kept == SelectSeq(tags, LAMBDA t : Strip(t) # <<>>)
    IN  FirstN([i \in 1..Len(kept) |-> LStrip(Strip(kept[i]), "#")], MaxTags)

NoFetch == [kind |-> "none", val |-> <<>>, exc |-> NoExc]

IdleReq ==
    [ pc |-> "idle", op |-> "none", user |-> <<>>, attempt |-> 0,
      niche |-> "none", tags |-> <<>>, min_f |-> 0, max_f |-> 0, min_e |-> <<0, 1>>,
      session |-> NoSession, hashtags |-> <<>>, tag_i |-> 0,
      f_i |-> 0, saw |-> FALSE, calls |-> <<>>, fret |-> NoFetch,
      medias |-> <<>>, media_i |-> 0, results |-> <<>>, seen |-> {},
      ret |-> NoRet,
      \* history
      n_fetch |-> 0, n_lookup |-> 0, n_eval |-> 0, empty_tags |-> 0,
      n_dup |-> 0, upcalls |-> 0, challenged |-> FALSE, wrote |-> FALSE,
      after_chal |-> FALSE, t0 |-> 0,
      \* history: the client.login calls and the outcome of login_with_retry,
      \* the get_timeline_feed calls, the upstream calls that succeeded and
      \* the accounts looked up
      logins |-> <<>>, lret |-> NoFetch, feed |-> <<>>, okcalls |-> 0, looked |-> {},
      \* the local hour_count or day_count of enforce_internal_cap
      count |-> 0 ]

Finish(rq, http) == [rq EXCEPT !.pc = "done", !.ret = http]

(* An upstream call was made for the request, and raised exc or returned *)
Called(rq, exc) ==
    [rq EXCEPT !.upcalls = @ + 1,
               !.okcalls = IF exc = NoExc THEN @ + 1 ELSE @,
               !.challenged = @ \/ exc.kind = "ChallengeRequired"]

Commit(r, rq) ==
    /\ req' = [req EXCEPT ![r] = rq]
    /\ chal_time' = IF rq.pc = "done" /\ rq.challenged THEN now ELSE chal_time

PauseIf(c) ==
    IF c THEN pause_user(UserId) /\ last_pause' = now
    ELSE UNCHANGED <<redis, pause_until, last_pause>>

Begin(r, op) ==
    [IdleReq EXCEPT !.op = op, !.t0 = now,
                    !.after_chal = (chal_time >= 0 /\ now < chal_time + PauseTTL)]

PausedRet == Http(429, "Account paused for 24h due to challenge. Reconnect later.")

---------------------------------------------------------------------------
(* connect_ig *)

(* The session slot and the last-used-handle record are written *)
SaveSession(rq, session_dict) ==
    /\ sessions' = WriteSlot(sessions, get_session_path(rq.user), encrypt_session(session_dict))
    /\ recent' = Touch(recent, get_session_path(rq.user))

ConnectBegin(r, ig_username, password_is_mock) ==
    LET rq == [Begin(r, "connect") EXCEPT !.user = ig_username] IN
    /\ req[r].pc = "idle"
    /\ started' = started + 1
    /\ IF is_paused(UserId)
       THEN /\ Commit(r, Finish(rq, PausedRet))
            /\ UNCHANGED <<sessions, recent, user_map>>
       ELSE IF ig_username = MOCK_IG_USERNAME /\ password_is_mock
       THEN IF fernet_key = NoKey
            THEN /\ Commit(r, Finish(rq, Http(500, "Internal Server Error")))
                 /\ UNCHANGED <<sessions, recent, user_map>>
            ELSE /\ SaveSession(rq, MockSession)
                 /\ user_map' = ig_username
                 /\ Commit(r, Finish([rq EXCEPT !.wrote = TRUE], Http(200, "connected")))
       ELSE /\ Commit(r, [rq EXCEPT !.pc = "login"])
            /\ UNCHANGED <<sessions, recent, user_map>>
    /\ UNCHANGED <<govVars, histVars, fernet_key, avail>>

(* Mutant: one retry more than retries allows *)
ShouldRetry_OneMore(exc, attempt) ==
    is_retryable_server_error(exc) /\ attempt <= Retries

(* login_with_retry: the failure exc of attempt number attempt is retried *)
ShouldRetry(exc, attempt) ==
    is_retryable_server_error(exc) /\ attempt < Retries

(* The outcome of login_with_retry after a client.login call *)
LoginOutcome(rq, ok, exc) ==
    IF ok THEN [kind |-> "value", val |-> <<>>, exc |-> NoExc]
    ELSE IF ShouldRetry(exc, rq.attempt) THEN NoFetch
    ELSE [kind |-> "raise", val |-> <<>>, exc |-> exc]

(* One client.login call of login_with_retry, and what follows it *)
LoginCall(r, ok, exc) ==
    LET rq == [Called(req[r], exc) EXCEPT
                  !.logins = Append(@, [ok |-> ok, exc |-> exc]),
                  !.lret = LoginOutcome(req[r], ok, exc)]
    IN
    /\ req[r].pc = "login"
    /\ IF ok
       THEN IF fernet_key = NoKey
            THEN /\ Commit(r, Finish(rq, Http(500, "Internal Server Error")))
                 /\ UNCHANGED <<sessions, recent, user_map>>
            ELSE /\ SaveSession(rq, Settings(rq.user))
                 /\ user_map' = rq.user
                 /\ Commit(r, Finish([rq EXCEPT !.wrote = TRUE], Http(200, "connected")))
       ELSE /\ UNCHANGED <<sessions, recent, user_map>>
            /\ IF ShouldRetry(exc, rq.attempt)
               THEN Commit(r, [rq EXCEPT !.attempt = @ + 1])
               ELSE IF exc.kind = "ChallengeRequired"
               THEN Commit(r, Finish(rq, Http(401, "Challenge required. Account paused for 24h.")))
               ELSE IF handle_ig_exception(exc) # NoRet
               THEN Commit(r, Finish(rq, handle_ig_exception(exc)))
               ELSE Commit(r, Finish(rq, Http(400, "Instagram login failed")))
    /\ PauseIf(~ok /\ ~ShouldRetry(exc, rq.attempt) /\ exc.kind = "ChallengeRequired")
    /\ UNCHANGED <<now, backend, memory_cap, last_ret, calls_hour, ticks,
                   fernet_key, avail, started>>

---------------------------------------------------------------------------
(* search *)

(* ig_username, else the last used handle, else the latest stored slot,    *)
(* else the handle the middleware loaded; <<>> when none                   *)
ResolveUsername(ig_username) ==
    IF ig_username # <<>> THEN ig_username
    ELSE IF load_last_username # <<>> THEN load_last_username
    ELSE IF get_latest_session_username # <<>> THEN get_latest_session_username
    ELSE load_last_username

(* search up to the first upstream call, after the quota was consumed *)
SearchSetup(rq) ==
    IF rq.niche \notin DOMAIN HASHTAG_MAP /\ rq.niche # "custom"
    THEN Finish(rq, Http(400, "Unsupported niche"))
    ELSE IF rq.user = <<>>
    THEN Finish(rq, Http(400, "Instagram not connected"))
    ELSE IF get_session_path(rq.user) \notin DOMAIN sessions
    THEN Finish(rq, Http(400, "Instagram not connected"))
    ELSE IF ~CanDecrypt(sessions[get_session_path(rq.user)])
    THEN Finish(rq, Http(500, "Internal Server Error"))
    ELSE [rq EXCEPT !.pc = "validate",
                    !.session = decrypt_session(sessions[get_session_path(rq.user)])]

SearchBegin(r, niche, min_f, max_f, min_e, tags, ig_username) ==
    LET rq == [Begin(r, "search") EXCEPT
                  !.niche = niche, !.min_f = min_f, !.max_f = max_f, !.min_e = min_e,
                  !.tags = tags, !.user = ResolveUsername(ig_username)] IN
    /\ req[r].pc = "idle"
    /\ started' = started + 1
    /\ IF is_paused(UserId)
       THEN /\ Commit(r, Finish(rq, PausedRet))
            /\ UNCHANGED <<redis, memory_cap, last_ret, calls_hour>>
       ELSE \E cap \in {"ok", "hourly", "daily"} :
            /\ EnforceInternalCap(UserId, cap)
            /\ last_ret' = cap
            /\ calls_hour' = calls_hour + 1
            /\ CASE cap = "hourly" -> Commit(r, Finish(rq, Http(429, "Hourly request cap exceeded")))
                 [] cap = "daily" -> Commit(r, Finish(rq, Http(429, "Daily request cap exceeded")))
                 [] OTHER -> Commit(r, SearchSetup(rq))
    /\ UNCHANGED <<now, backend, pause_until, last_pause, ticks,
                   sessions, recent, user_map, fernet_key, avail>>

(* The for loop over hashtags enters get_hashtag_medias for tag number i *)
EnterTag(rq, i) ==
    [rq EXCEPT !.pc = "fetch", !.tag_i = i, !.f_i = 1, !.saw = FALSE,
               !.calls = <<>>, !.fret = NoFetch, !.medias = <<>>, !.media_i = 0,
               !.n_fetch = @ + 1]

(* After a successful get_timeline_feed: the hashtags of the query *)
SearchScanStart(rq) ==
    IF rq.niche = "custom"
    THEN IF rq.tags = <<>> \/ CustomHashtags(rq.tags) = <<>>
         THEN Finish(rq, Http(400, "Custom hashtags required"))
         ELSE EnterTag([rq EXCEPT !.hashtags = CustomHashtags(rq.tags)], 1)
    ELSE EnterTag([rq EXCEPT !.hashtags = FirstN(HASHTAG_MAP[rq.niche], MaxTags)], 1)

(* The except clause around the per-tag scan *)
SearchExcept(rq, exc) ==
    IF exc.kind = "ChallengeRequired"
    THEN Finish(rq, Http(401, "Challenge required. Account paused for 24h."))
    ELSE IF handle_ig_exception(exc) # NoRet
    THEN Finish(rq, handle_ig_exception(exc))
    ELSE Finish(rq, Http(400, "Instagram search failed"))

(* client.get_timeline_feed() *)
SearchValidate(r, ok, exc) ==
    LET rq == [Called(req[r], exc) EXCEPT !.feed = Append(@, [ok |-> ok, exc |-> exc])] IN
    /\ req[r].pc = "validate"
    /\ IF ok
       THEN Commit(r, SearchScanStart(rq))
       ELSE IF exc.kind = "ChallengeRequired"
       THEN Commit(r, Finish(rq, Http(401, "Challenge required. Account paused for 24h.")))
       ELSE IF exc.kind = "LoginRequired"
       THEN Commit(r, Finish(rq, Http(401, "Reconnect needed")))
       ELSE IF handle_ig_exception(exc) # NoRet
       THEN Commit(r, Finish(rq, handle_ig_exception(exc)))
       ELSE Commit(r, Finish(rq, Http(400, "Instagram search failed")))
    /\ PauseIf(~ok /\ exc.kind = "ChallengeRequired")
    /\ UNCHANGED <<now, backend, memory_cap, last_ret, calls_hour, ticks,
                   sessions, recent, user_map, fernet_key, avail, started>>

(* get_hashtag_medias returns value: the loop over its media begins *)
FetchReturn(rq, value) ==
    [rq EXCEPT !.pc = "media", !.medias = value, !.media_i = 1,
               !.fret = [kind |-> "value", val |-> value, exc |-> NoExc]]

(* get_hashtag_medias raises exc into the scan's except clause *)
FetchRaise(rq, exc) ==
    SearchExcept([rq EXCEPT !.fret = [kind |-> "raise", val |-> <<>>, exc |-> exc]], exc)

(* Mutant: the value of the variant that succeeded is dropped *)
FetchOutcome_ReturnsEmpty(rq, j, ok, value, exc) ==
    IF ok THEN FetchReturn(rq, <<>>)
    ELSE IF is_media_validation_error(exc)
    THEN [rq EXCEPT !.saw = TRUE, !.f_i = j + 1]
    ELSE FetchRaise(rq, exc)

(* Mutant: every failure of a variant is taken for a mismatch *)
FetchOutcome_SwallowsAll(rq, j, ok, value, exc) ==
    IF ok THEN FetchReturn(rq, value)
    ELSE [rq EXCEPT !.saw = TRUE, !.f_i = j + 1]

(* The outcome of calling variant j: its value is returned, a validation   *)
(* error is noted and the next variant tried, any other error is raised    *)
FetchOutcome(rq, j, ok, value, exc) ==
    IF ok THEN FetchReturn(rq, value)
    ELSE IF is_media_validation_error(exc)
    THEN [rq EXCEPT !.saw = TRUE, !.f_i = j + 1]
    ELSE FetchRaise(rq, exc)

(* get_hashtag_medias: the call of the next variant the client has *)
FetchCall(r, ok, value, exc) ==
    LET j == NextVariant(req[r].f_i)
        rq == [Called(req[r], exc) EXCEPT
                  !.calls = Append(@, [variant |-> j, ok |-> ok, value |-> value, exc |-> exc])]
    IN
    /\ req[r].pc = "fetch"
    /\ j <= Len(methods)
    /\ Commit(r, FetchOutcome(rq, j, ok, value, exc))
    /\ PauseIf(FetchOutcome(rq, j, ok, value, exc).pc = "done" /\ exc.kind = "ChallengeRequired")
    /\ UNCHANGED <<now, backend, memory_cap, last_ret, calls_hour, ticks,
                   sessions, recent, user_map, fernet_key, avail, started>>

(* Mutant: running out of variants after a mismatch is an error *)
FetchExhausted_RaisesOnMismatch(r) ==
    /\ req[r].pc = "fetch"
    /\ NextVariant(req[r].f_i) > Len(methods)
    /\ Commit(r, IF req[r].saw
                 THEN FetchRaise([req[r] EXCEPT !.empty_tags = @ + 1],
                                 Exc("Exception", {"validation error", "Media"}))
                 ELSE FetchReturn([req[r] EXCEPT !.empty_tags = @ + 1], <<>>))
    /\ UNCHANGED <<govVars, histVars, sessions, recent, user_map, fernet_key, avail, started>>

(* get_hashtag_medias: no variant is left, the result is empty *)
FetchExhausted(r) ==
    /\ req[r].pc = "fetch"
    /\ NextVariant(req[r].f_i) > Len(methods)
    /\ Commit(r, FetchReturn([req[r] EXCEPT !.empty_tags = @ + 1], <<>>))
    /\ UNCHANGED <<govVars, histVars, sessions, recent, user_map, fernet_key, avail, started>>

(* engagement_rate < min_e, with engagement_rate = total / follower_count  *)
(* (0 when there are no followers) and min_e = num / den                   *)
EngagementBelow(total, follower_count, min_e) ==
    IF follower_count > 0
    THEN total * min_e[2] < min_e[1] * follower_count
    ELSE 0 < min_e[1]

(* The media at hand and its owner *)
CurMedia(rq) == rq.medias[rq.media_i]

(* Mutant: the loop does not test the cap *)
InLoop_NoCap(rq) ==
    rq.pc = "media" /\ rq.media_i <= Len(rq.medias)

InLoop(rq) ==
    rq.pc = "media" /\ Len(rq.results) < Cap /\ rq.media_i <= Len(rq.medias)

(* Mutant: an emitted account is not recorded as seen *)
Evaluate_NoSeen(rq, media, info) ==
    IF info.follower_count < rq.min_f \/ info.follower_count > rq.max_f
    THEN rq
    ELSE IF EngagementBelow(get_media_like_count(media) + get_media_comment_count(media),
                            info.follower_count, rq.min_e)
    THEN rq
    ELSE [rq EXCEPT
            !.results = Append(@,
                [ig_username |-> info.username,
                 follower_count |-> info.follower_count,
                 engagement_rate |->
                    IF info.follower_count > 0
                    THEN <<get_media_like_count(media) + get_media_comment_count(media),
                           info.follower_count>>
                    ELSE <<0, 1>>])]

(* Mutant: the follower range excludes its bounds *)
Evaluate_StrictRange(rq, media, info) ==
    IF info.follower_count <= rq.min_f \/ info.follower_count >= rq.max_f
    THEN rq
    ELSE IF EngagementBelow(get_media_like_count(media) + get_media_comment_count(media),
                            info.follower_count, rq.min_e)
    THEN rq
    ELSE [rq EXCEPT
            !.seen = @ \cup {get_media_user_pk(media)},
            !.results = Append(@,
                [ig_username |-> info.username,
                 follower_count |-> info.follower_count,
                 engagement_rate |->
                    IF info.follower_count > 0
                    THEN <<get_media_like_count(media) + get_media_comment_count(media),
                           info.follower_count>>
                    ELSE <<0, 1>>])]

(* The loop body after user_info returned info *)
Evaluate(rq, media, info) ==
    IF info.follower_count < rq.min_f \/ info.follower_count > rq.max_f
    THEN rq
    ELSE IF EngagementBelow(get_media_like_count(media) + get_media_comment_count(media),
                            info.follower_count, rq.min_e)
    THEN rq
    ELSE [rq EXCEPT
            !.seen = @ \cup {get_media_user_pk(media)},
            !.results = Append(@,
                [ig_username |-> info.username,
                 follower_count |-> info.follower_count,
                 engagement_rate |->
                    IF info.follower_count > 0
                    THEN <<get_media_like_count(media) + get_media_comment_count(media),
                           info.follower_count>>
                    ELSE <<0, 1>>])]

(* A media record without owner id, or of an account already emitted, is skipped *)
MediaSkip(r) ==
    /\ InLoop(req[r])
    /\ \/ get_media_user_pk(CurMedia(req[r])) = 0
       \/ get_media_user_pk(CurMedia(req[r])) \in req[r].seen
    /\ Commit(r, [req[r] EXCEPT !.media_i = @ + 1, !.n_eval = @ + 1,
                                !.n_dup = IF get_media_user_pk(CurMedia(req[r])) = 0
                                          THEN @ ELSE @ + 1])
    /\ UNCHANGED <<govVars, histVars, sessions, recent, user_map, fernet_key, avail, started>>

(* client.user_info(user_id) and the threshold tests *)
MediaLookup(r, ok, exc) ==
    LET rq == [Called(req[r], exc) EXCEPT !.n_eval = @ + 1, !.n_lookup = @ + 1,
                                          !.media_i = @ + 1,
                                          !.looked = @ \cup {get_media_user_pk(CurMedia(req[r]))}]
        media == CurMedia(req[r])
    IN
    /\ InLoop(req[r])
    /\ get_media_user_pk(media) # 0
    /\ get_media_user_pk(media) \notin req[r].seen
    /\ IF ok
       THEN Commit(r, Evaluate(rq, media, UserInfo(get_media_user_pk(media))))
       ELSE Commit(r, SearchExcept(rq, exc))
    /\ PauseIf(~ok /\ exc.kind = "ChallengeRequired")
    /\ UNCHANGED <<now, backend, memory_cap, last_ret, calls_hour, ticks,
                   sessions, recent, user_map, fernet_key, avail, started>>

(* The media loop ends (break at the cap, or no media left); then the tag  *)
(* loop breaks at the cap or goes on; after the last tag the session is    *)
(* saved again, unless it is the mock session, and the leads are returned  *)
MediaEnd(r) ==
    LET rq == req[r] IN
    /\ rq.pc = "media"
    /\ Len(rq.results) >= Cap \/ rq.media_i > Len(rq.medias)
    /\ IF Len(rq.results) < Cap /\ rq.tag_i < Len(rq.hashtags)
       THEN /\ Commit(r, EnterTag(rq, rq.tag_i + 1))
            /\ UNCHANGED <<sessions, recent>>
       ELSE IF rq.session.mock
       THEN /\ Commit(r, Finish(rq, Http(200, "results")))
            /\ UNCHANGED <<sessions, recent>>
       ELSE /\ SaveSession(rq, Settings(rq.session.owner))
            /\ Commit(r, Finish([rq EXCEPT !.wrote = TRUE], Http(200, "results")))
    /\ UNCHANGED <<govVars, histVars, user_map, fernet_key, avail, started>>

(* The response is sent and the worker is free for the next request *)
Respond(r) ==
    /\ req[r].pc = "done"
    /\ req' = [req EXCEPT ![r] = IdleReq]
    /\ UNCHANGED <<govVars, histVars, sessions, recent, user_map, fernet_key, avail,
                   started, chal_time>>

(* The clock advances while requests are in flight *)
Tick(t) ==
    /\ Advance(t)
    /\ UNCHANGED reqVars

ReqInit ==
    /\ req = [r \in Reqs |-> IdleReq]
    /\ sessions = EmptyDict
    /\ recent = <<>>
    /\ user_map = <<>>
    /\ fernet_key = "key"
    /\ avail = MethodNames
    /\ started = 0
    /\ chal_time = -1

---------------------------------------------------------------------------
(* Inputs *)

HandleA == <<"a">>

DefaultMaxF == 10000000     \* max_f: int = 10000000

(* Messages by the markers they contain, and failures of every class *)
ShapeMsgs == { {"validation error", "Media"}, {"clips_metadata"}, {"image_versions2"} }

OtherMsgs == { {}, {"validation error"}, {"Server Error"} }

ExcKinds == {"ChallengeRequired", "ClientThrottledError", "LoginRequired",
             "ClientLoginRequired", "Exception"}

(* A session stored by an earlier connect of handle under the configured key *)
StoredFor(handle) ==
    /\ sessions = Put(EmptyDict, get_session_path(handle),
                      [key |-> "key", payload |-> Settings(handle)])
    /\ recent = <<get_session_path(handle)>>
    /\ user_map = handle
    /\ fernet_key = "key"

(* The frame of a search of handle that is about to call get_timeline_feed *)
Validating(handle, niche, tags, min_f, max_f, min_e) ==
    [IdleReq EXCEPT !.op = "search", !.pc = "validate", !.user = handle,
                    !.niche = niche, !.tags = tags,
                    !.min_f = min_f, !.max_f = max_f, !.min_e = min_e,
                    !.session = Settings(handle)]

---------------------------------------------------------------------------
(* SpecFetch: one get_hashtag_medias call of a search, for every set of    *)
(* query methods the client may have and every outcome of each variant.    *)

FetchAvail ==
    { MethodNames, {}, {"hashtag_medias_v1"},
      {"hashtag_medias_recent", "hashtag_medias_top_v1"},
      MethodNames \ {"hashtag_medias_recent"} }

FetchPages == { <<>>, Page(1, 2), MixedPage }

FetchInit ==
    /\ GovInit
    /\ StoredFor(HandleA)
    /\ avail \in FetchAvail
    /\ started = 1
    /\ chal_time = -1
    /\ req = [r \in Reqs |->
                IF r = 1
                THEN SearchScanStart(Called(
                        Validating(HandleA, "fitness", <<>>, 0, DefaultMaxF, <<0, 1>>), NoExc))
                ELSE IdleReq]

FetchOk == \E page \in FetchPages : FetchCall(1, TRUE, page, NoExc)

FetchShapeError ==
    \E k \in {"Exception", "ChallengeRequired"}, m \in ShapeMsgs :
        FetchCall(1, FALSE, <<>>, Exc(k, m))

FetchOtherError ==
    \E k \in ExcKinds, m \in OtherMsgs : FetchCall(1, FALSE, <<>>, Exc(k, m))

FetchNext == FetchOk \/ FetchShapeError \/ FetchOtherError \/ FetchExhausted(1)

SpecFetch == FetchInit /\ [][FetchNext]_vars

(* The variants the client has, in the order of preference *)
AvailVariants == SelectSeq([i \in 1..Len(methods) |-> i], LAMBDA i : hasattr(methods[i].name))

(* The calls of the current get_hashtag_medias went to the first variants  *)
(* the client has, each once, in order                                     *)
CalledInOrder(rq) ==
    /\ Len(rq.calls) <= Len(AvailVariants)
    /\ \A j \in 1..Len(rq.calls) : rq.calls[j].variant = AvailVariants[j]

ShapeFailure(call) == ~call.ok /\ is_media_validation_error(call.exc)

(* C6: when the first N variants the client has fail with a shape or       *)
(* validation mismatch and the next one succeeds, get_hashtag_medias       *)
(* returns exactly that variant's output, the N+1 variants were each       *)
(* called once in order, and no later variant is called.                   *)
C6_FirstSuccessReturned ==
    \A r \in Reqs : \A j \in 1..Len(req[r].calls) :
        (req[r].calls[j].ok /\ \A k \in 1..(j - 1) : ShapeFailure(req[r].calls[k]))
        =>  /\ j = Len(req[r].calls)
            /\ CalledInOrder(req[r])
            /\ req[r].pc # "fetch"
            /\ req[r].fret = [kind |-> "value", val |-> req[r].calls[j].value, exc |-> NoExc]
            /\ req[r].medias = req[r].calls[j].value

C6_Witness ==
    /\ avail = MethodNames
    /\ Len(req[1].calls) = 5
    /\ \A k \in 1..4 : ShapeFailure(req[1].calls[k])
    /\ req[1].calls[5].ok
    /\ req[1].fret.kind = "value"
    /\ req[1].fret.val = Page(1, 2)

(* C7: a failure of a variant that is not classified as a shape or         *)
(* validation mismatch leaves get_hashtag_medias as that same error at     *)
(* once: no later variant is called and no empty result is returned, also  *)
(* after earlier variants failed with mismatches.                          *)
C7_OtherErrorPropagates ==
    \A r \in Reqs : \A j \in 1..Len(req[r].calls) :
        (~req[r].calls[j].ok /\ ~is_media_validation_error(req[r].calls[j].exc))
        =>  /\ j = Len(req[r].calls)
            /\ req[r].fret = [kind |-> "raise", val |-> <<>>, exc |-> req[r].calls[j].exc]
            /\ req[r].pc = "done"
            /\ req[r].ret.status # 200

C7_Witness ==
    /\ Len(req[1].calls) = 3
    /\ ShapeFailure(req[1].calls[1])
    /\ ShapeFailure(req[1].calls[2])
    /\ req[1].calls[3].exc = Exc("ClientThrottledError", {})
    /\ req[1].fret.kind = "raise"
    /\ req[1].ret = Http(429, "Instagram rate limit")

---------------------------------------------------------------------------
(* SpecSearch: searches of one connected caller, one after the other, over *)
(* pages of up to 15 media per hashtag.                                    *)

MaxSearches == 2        \* searches explored by SpecSearch

SearchPages == { <<>>, Page(1, 15), Page(8, 22), MixedPage }

Thresholds == { <<0, DefaultMaxF, <<0, 1>>>>, <<1000, 10000, <<1, 50>>>>,
                <<0, 10000, <<0, 1>>>> }

SearchInit ==
    /\ GovInit
    /\ StoredFor(HandleA)
    /\ avail = {"hashtag_medias_recent", "hashtag_medias_top_v1"}
    /\ started = 0
    /\ chal_time = -1
    /\ req = [r \in Reqs |-> IdleReq]

SearchStart ==
    /\ started < MaxSearches
    /\ \E niche \in {"fitness", "custom"}, th \in Thresholds :
          SearchBegin(1, niche, th[1], th[2], th[3], << <<"#", "x">> >>, <<>>)

SearchFeed ==
    \/ SearchValidate(1, TRUE, NoExc)
    \/ \E e \in { Exc("LoginRequired", {}), Exc("ClientThrottledError", {}),
                  Exc("Exception", {"Server Error"}) } :
          SearchValidate(1, FALSE, e)

SearchFetch ==
    \/ \E page \in SearchPages : FetchCall(1, TRUE, page, NoExc)
    \/ FetchCall(1, FALSE, <<>>, Exc("Exception", {"validation error", "Media"}))
    \/ FetchCall(1, FALSE, <<>>, Exc("ClientThrottledError", {}))

SearchLookup ==
    \/ MediaLookup(1, TRUE, NoExc)
    \/ MediaLookup(1, FALSE, Exc("ChallengeRequired", {}))

SearchNext ==
    \/ SearchStart
    \/ SearchFeed
    \/ SearchFetch
    \/ FetchExhausted(1)
    \/ SearchLookup
    \/ MediaSkip(1)
    \/ MediaEnd(1)
    \/ Respond(1)

SpecSearch == SearchInit /\ [][SearchNext]_vars

(* C8: when every variant called fails with a shape or validation mismatch *)
(* (or the client has none of the variants), get_hashtag_medias returns an *)
(* empty sequence and raises nothing; a search whose every tag ends this   *)
(* way completes with status 200 and no leads.                             *)
C8_AllMismatchIsEmpty ==
    \A r \in Reqs :
        /\ (req[r].fret.kind # "none"
                /\ \A j \in 1..Len(req[r].calls) : ShapeFailure(req[r].calls[j]))
            => req[r].fret = [kind |-> "value", val |-> <<>>, exc |-> NoExc]
        /\ (req[r].pc = "done" /\ req[r].hashtags # <<>>
                /\ req[r].empty_tags = Len(req[r].hashtags))
            => (req[r].ret = Http(200, "results") /\ req[r].results = <<>>)

C8_Witness ==
    /\ req[1].pc = "done"
    /\ Len(req[1].hashtags) = 3
    /\ req[1].empty_tags = 3
    /\ Len(req[1].calls) = 2
    /\ req[1].ret = Http(200, "results")
    /\ req[1].results = <<>>

(* C9: the leads of a search hold at most one lead per account id, also    *)
(* across the hashtags of the query; the set of seen ids is that of the    *)
(* leads of this query alone, empty when the query starts.                 *)
C9_OneLeadPerAccount ==
    \A r \in Reqs :
        /\ \A i, j \in 1..Len(req[r].results) :
              i # j => req[r].results[i].ig_username # req[r].results[j].ig_username
        /\ req[r].seen = {req[r].results[i].ig_username : i \in 1..Len(req[r].results)}
        /\ req[r].pc \in {"idle", "validate"} => req[r].seen = {}

(* The account 8, emitted under the first hashtag, is met again as the     *)
(* first media of the second hashtag and skipped                           *)
C9_Witness ==
    /\ req[1].tag_i = 2
    /\ req[1].medias = Page(8, 22)
    /\ req[1].media_i = 2
    /\ req[1].n_eval = 16
    /\ req[1].n_dup = 1
    /\ 8 \in req[1].seen

(* C10: a search never holds more than 20 leads, counted over all its      *)
(* hashtags; once it holds 20, no further media record is evaluated, no    *)
(* further user_info call is made and no further hashtag is fetched.       *)
C10_CapStopsScan ==
    /\ [](\A r \in Reqs : Len(req[r].results) <= 20)
    /\ [][\A r \in Reqs :
            (Len(req[r].results) >= 20 /\ req'[r].pc # "idle")
            =>  /\ req'[r].n_eval = req[r].n_eval
                /\ req'[r].n_lookup = req[r].n_lookup
                /\ req'[r].n_fetch = req[r].n_fetch
                /\ req'[r].upcalls = req[r].upcalls]_vars

C10_Witness ==
    /\ req[1].pc = "done"
    /\ Len(req[1].results) = 20
    /\ req[1].ret = Http(200, "results")
    /\ req[1].media_i <= Len(req[1].medias)
    /\ req[1].tag_i < Len(req[1].hashtags)

(* The record under evaluation has likes l, comments c and an owner with f *)
(* followers: it is kept when f is within [min_f, max_f] and l + c over f  *)
(* (0 when f = 0) is at least min_e                                        *)
Kept(rq, f, l, c) ==
    /\ rq.min_f <= f
    /\ f <= rq.max_f
    /\ IF f > 0 THEN (l + c) * rq.min_e[2] >= rq.min_e[1] * f
                ELSE rq.min_e[1] <= 0

(* C11: a media record whose account was looked up yields a lead if and    *)
(* only if min_f <= f <= max_f, both bounds included, and engagement >=    *)
(* min_e, with engagement (l + c) / f when f > 0 and 0 when f = 0; the     *)
(* lead carries that follower count and engagement.                        *)
C11_FilterDecision ==
    [][\A r \in Reqs :
          (req'[r].n_lookup = req[r].n_lookup + 1 /\ req'[r].pc = "media")
          => LET m == req[r].medias[req[r].media_i]
                 f == FollowerCount(m.pk)
                 l == m.like_count
                 c == m.comment_count
             IN IF Kept(req[r], f, l, c)
                THEN req'[r].results =
                        Append(req[r].results,
                               [ig_username |-> m.pk, follower_count |-> f,
                                engagement_rate |-> IF f > 0 THEN <<l + c, f>> ELSE <<0, 1>>])
                ELSE req'[r].results = req[r].results]_vars

(* Accounts with exactly min_f (0) and exactly max_f (10000) followers were *)
(* kept, the one with no followers at min_e = 0, and another was discarded  *)
C11_Witness ==
    /\ req[1].min_f = 0
    /\ req[1].max_f = 10000
    /\ \E i, j \in 1..Len(req[1].results) :
          /\ req[1].results[i].follower_count = 0
          /\ req[1].results[i].engagement_rate = <<0, 1>>
          /\ req[1].results[j].follower_count = 10000
          /\ req[1].results[j].engagement_rate = <<120, 10000>>
    /\ req[1].n_lookup > Len(req[1].results)

(* C18: within one search an account is looked up at most once: only the   *)
(* first media record of an account id is evaluated, every later one is    *)
(* skipped without a user_info call, whether the first was emitted or      *)
(* discarded by the thresholds.                                            *)
C18_FirstOccurrenceWins ==
    \A r \in Reqs : req[r].n_lookup = Cardinality(req[r].looked)

(* C19: a search in which an upstream call succeeded has written the       *)
(* session slot by the time it returns, also when a later step failed and  *)
(* whatever the session holds; a search without a successful upstream call *)
(* has not written it.                                                     *)
C19_SavedAfterUpstreamSuccess ==
    \A r \in Reqs :
        (req[r].op = "search" /\ req[r].pc = "done")
        => (req[r].wrote <=> req[r].okcalls > 0)

(* A failure the Retry Policy takes for transient, or a throttling *)
Transient(exc) == is_retryable_server_error(exc) \/ exc.kind = "ClientThrottledError"

(* C20: get_timeline_feed is called through the Retry Policy: after a      *)
(* single transient or throttled failure of it the search has not failed,  *)
(* the call is made again.                                                 *)
C20_FeedThroughRetry ==
    \A r \in Reqs :
        (req[r].op = "search" /\ Len(req[r].feed) = 1
            /\ ~req[r].feed[1].ok /\ Transient(req[r].feed[1].exc))
        => req[r].pc = "validate"

---------------------------------------------------------------------------
(* SpecReq: connect_ig and search requests of the caller on two worker     *)
(* threads, from an empty sessions directory, with the clock advancing by  *)
(* the pause period.                                                       *)

MaxRequests == 3        \* requests explored by SpecReq
MaxReqTicks == 1        \* clock advances explored by SpecReq

ReqPages == { Page(1, 1), <<Media("obj", 1, 100, 20), Media("dict", 1, 5, 5)>> }

ReqInitAll ==
    /\ GovInit
    /\ req = [r \in Reqs |-> IdleReq]
    /\ sessions = EmptyDict
    /\ recent = <<>>
    /\ user_map = <<>>
    /\ fernet_key = "key"
    /\ avail = {"hashtag_medias_recent"}
    /\ started = 0
    /\ chal_time = -1

ReqConnect ==
    /\ started < MaxRequests
    /\ \E r \in Reqs, u \in {HandleA, MOCK_IG_USERNAME}, pm \in BOOLEAN :
          ConnectBegin(r, u, pm)

ReqLogin ==
    \E r \in Reqs :
        \/ LoginCall(r, TRUE, NoExc)
        \/ \E e \in { Exc("ChallengeRequired", {}), Exc("ChallengeRequired", {"Server Error"}),
                      Exc("ClientThrottledError", {}) } :
              LoginCall(r, FALSE, e)

ReqSearch ==
    /\ started < MaxRequests
    /\ \E r \in Reqs, niche \in {"custom", "cars"} :
          SearchBegin(r, niche, 0, DefaultMaxF, <<0, 1>>, << <<"#", "x">> >>, <<>>)

ReqValidate ==
    \E r \in Reqs :
        \/ SearchValidate(r, TRUE, NoExc)
        \/ \E e \in { Exc("ChallengeRequired", {}), Exc("LoginRequired", {}) } :
              SearchValidate(r, FALSE, e)

ReqFetch ==
    \E r \in Reqs :
        \/ \E page \in ReqPages : FetchCall(r, TRUE, page, NoExc)
        \/ \E e \in { Exc("ChallengeRequired", {}), Exc("ChallengeRequired", {"clips_metadata"}) } :
              FetchCall(r, FALSE, <<>>, e)

ReqLookup ==
    \E r \in Reqs :
        \/ MediaLookup(r, TRUE, NoExc)
        \/ MediaLookup(r, FALSE, Exc("ChallengeRequired", {}))

ReqLocal ==
    \E r \in Reqs : FetchExhausted(r) \/ MediaSkip(r) \/ MediaEnd(r) \/ Respond(r)

ReqTick ==
    /\ ticks < MaxReqTicks
    /\ Tick(now + PauseTTL)

ReqNext ==
    \/ ReqConnect
    \/ ReqLogin
    \/ ReqSearch
    \/ ReqValidate
    \/ ReqFetch
    \/ ReqLookup
    \/ ReqLocal
    \/ ReqTick

SpecReq == ReqInitAll /\ [][ReqNext]_vars

(* C4: while the pause flag of the caller is live, every connect_ig and    *)
(* search fails fast as paused: no step makes an upstream call, increments *)
(* a quota counter or writes a session slot or the last-used-handle        *)
(* record, whatever the interleaving of the caller's requests.             *)
C4_NoBypassWhilePaused ==
    [][is_paused(UserId) =>
          /\ \A r \in Reqs : req'[r].upcalls <= req[r].upcalls
          /\ \A r \in Reqs : (req[r].pc = "idle" /\ req'[r].pc # "idle")
                                => req'[r].ret = PausedRet
          /\ sessions' = sessions
          /\ user_map' = user_map
          /\ (now' = now => /\ HourCount(UserId)' = HourCount(UserId)
                            /\ DayCount(UserId)' = DayCount(UserId))]_vars

(* C5: a request for which an upstream call failed with ChallengeRequired  *)
(* has set the pause flag by the time it returns, fails without results    *)
(* and without writing the session slot; a connect or search that starts   *)
(* after it returned, within the pause period, is rejected as paused.      *)
C5_ChallengeTripsPause ==
    \A r \in Reqs :
        /\ (req[r].pc = "done" /\ req[r].challenged)
            =>  /\ last_pause >= req[r].t0
                /\ req[r].ret.status # 200
                /\ ~req[r].wrote
        /\ (req[r].pc = "done" /\ req[r].after_chal) => req[r].ret = PausedRet

---------------------------------------------------------------------------
(* SpecVault: connects and searches of handles with and without "@", one   *)
(* request at a time, with the cipher key of the environment changing      *)
(* between requests.                                                       *)

MaxVaultRequests == 3   \* requests explored by SpecVault

VaultHandles == { HandleA, <<"@", "a">>, <<"b">> }

VaultKeys == { "key", "key2", NoKey }

VaultInit ==
    /\ GovInit
    /\ req = [r \in Reqs |-> IdleReq]
    /\ sessions = EmptyDict
    /\ recent = <<>>
    /\ user_map = <<>>
    /\ fernet_key = "key"
    /\ avail = {}
    /\ started = 0
    /\ chal_time = -1

VaultConnect ==
    /\ started < MaxVaultRequests
    /\ \E h \in VaultHandles : ConnectBegin(1, h, FALSE)

VaultLogin == LoginCall(1, TRUE, NoExc)

VaultSearch ==
    /\ started < MaxVaultRequests
    /\ \E h \in VaultHandles \cup {<<>>} :
          SearchBegin(1, "custom", 0, DefaultMaxF, <<0, 1>>, << <<"#", "x">> >>, h)

VaultValidate == SearchValidate(1, TRUE, NoExc)

(* FERNET_KEY of the environment is another one, or missing, at the next request *)
RotateKey ==
    /\ \A r \in Reqs : req[r].pc = "idle"
    /\ started < MaxVaultRequests
    /\ fernet_key' \in VaultKeys \ {fernet_key}
    /\ UNCHANGED <<govVars, histVars, req, sessions, recent, user_map, avail, started, chal_time>>

VaultNext ==
    \/ VaultConnect
    \/ VaultLogin
    \/ VaultSearch
    \/ VaultValidate
    \/ FetchExhausted(1)
    \/ MediaEnd(1)
    \/ Respond(1)
    \/ RotateKey

SpecVault == VaultInit /\ [][VaultNext]_vars

(* C14: distinct handles have distinct slots, so the session a search of   *)
(* handle h loads is the one that was saved for h, never the one saved by  *)
(* a connect of another handle.                                            *)
C14_SlotPerHandle ==
    \A r \in Reqs :
        (req[r].op = "search" /\ req[r].pc = "validate")
        => req[r].session.owner = req[r].user

(* C17: a search whose stored session cannot be decrypted ends as          *)
(* "reconnect needed" (as a configuration failure when the key is absent), *)
(* and every search ends in one of the defined outcomes, never in an       *)
(* untranslated failure.                                                   *)
C17_DecryptFailureTranslated ==
    \A r \in Reqs :
        (req[r].op = "search" /\ req[r].pc = "done")
        => req[r].ret # Http(500, "Internal Server Error")

---------------------------------------------------------------------------
(* SpecRace: enforce_internal_cap called by requests on two worker threads *)
(* within one hour bucket.  On the shared store each INCR is one step; on  *)
(* the in-process dictionary the read (_memory_cap.get(k, 0) + 1) and the  *)
(* store (_memory_cap[k] = count) are two steps that another thread may    *)
(* come between.                                                           *)

MaxRaceCalls == 4       \* enforce_internal_cap calls explored by SpecRace

RaceCall(r) ==
    /\ req[r].pc = "idle"
    /\ started < MaxRaceCalls
    /\ started' = started + 1
    /\ calls_hour' = calls_hour + 1
    /\ req' = [req EXCEPT ![r] = [Begin(r, "cap") EXCEPT !.pc = "cap_hour"]]
    /\ UNCHANGED <<govVars, last_ret, last_pause, ticks,
                   sessions, recent, user_map, fernet_key, avail, chal_time>>

(* hour_count = redis_client.incr(hour_key_name), expire, test *)
RaceHourIncr(r) ==
    LET s1 == RedisIncr(redis, HourKeyName(UserId, now), now)
        hour_count == s1[HourKeyName(UserId, now)].val
    IN
    /\ backend = "redis"
    /\ req[r].pc = "cap_hour"
    /\ redis' = IF hour_count = 1
                THEN RedisExpire(s1, HourKeyName(UserId, now), HourSeconds, now)
                ELSE s1
    /\ req' = [req EXCEPT ![r] =
                 IF hour_count > HourlyCap
                 THEN Finish([@ EXCEPT !.count = hour_count],
                             Http(429, "Hourly request cap exceeded"))
                 ELSE [@ EXCEPT !.count = hour_count, !.pc = "cap_day"]]
    /\ UNCHANGED <<now, backend, memory_cap, pause_until, histVars,
                   sessions, recent, user_map, fernet_key, avail, started, chal_time>>

(* day_count = redis_client.incr(day_key_name), expire, test *)
RaceDayIncr(r) ==
    /\ backend = "redis"
    /\ req[r].pc = "cap_day"
    /\ redis' = CapRedisDay(redis, UserId, now).store
    /\ req' = [req EXCEPT ![r] =
                 IF CapRedisDay(redis, UserId, now).ret = "daily"
                 THEN Finish(@, Http(429, "Daily request cap exceeded"))
                 ELSE Finish(@, Http(200, "ok"))]
    /\ UNCHANGED <<now, backend, memory_cap, pause_until, histVars,
                   sessions, recent, user_map, fernet_key, avail, started, chal_time>>

(* hour_count = _memory_cap.get(hour_key_name, 0) + 1 *)
RaceHourGet(r) ==
    /\ backend = "memory"
    /\ req[r].pc = "cap_hour"
    /\ req' = [req EXCEPT ![r] =
                 [@ EXCEPT !.count = Get(memory_cap, HourKeyName(UserId, now), 0) + 1,
                           !.pc = "cap_hour_set"]]
    /\ UNCHANGED <<govVars, histVars,
                   sessions, recent, user_map, fernet_key, avail, started, chal_time>>

(* _memory_cap[hour_key_name] = hour_count, and the test *)
RaceHourSet(r) ==
    /\ req[r].pc = "cap_hour_set"
    /\ memory_cap' = Put(memory_cap, HourKeyName(UserId, now), req[r].count)
    /\ req' = [req EXCEPT ![r] =
                 IF @.count > HourlyCap
                 THEN Finish(@, Http(429, "Hourly request cap exceeded"))
                 ELSE [@ EXCEPT !.pc = "cap_day"]]
    /\ UNCHANGED <<now, backend, redis, pause_until, histVars,
                   sessions, recent, user_map, fernet_key, avail, started, chal_time>>

(* day_count = _memory_cap.get(day_key_name, 0) + 1 *)
RaceDayGet(r) ==
    /\ backend = "memory"
    /\ req[r].pc = "cap_day"
    /\ req' = [req EXCEPT ![r] =
                 [@ EXCEPT !.count = Get(memory_cap, DayKeyName(UserId, now), 0) + 1,
                           !.pc = "cap_day_set"]]
    /\ UNCHANGED <<govVars, histVars,
                   sessions, recent, user_map, fernet_key, avail, started, chal_time>>

(* _memory_cap[day_key_name] = day_count, and the test *)
RaceDaySet(r) ==
    /\ req[r].pc = "cap_day_set"
    /\ memory_cap' = Put(memory_cap, DayKeyName(UserId, now), req[r].count)
    /\ req' = [req EXCEPT ![r] =
                 IF @.count > DailyCap
                 THEN Finish(@, Http(429, "Daily request cap exceeded"))
                 ELSE Finish(@, Http(200, "ok"))]
    /\ UNCHANGED <<now, backend, redis, pause_until, histVars,
                   sessions, recent, user_map, fernet_key, avail, started, chal_time>>

RaceNext ==
    \E r \in Reqs :
        \/ RaceCall(r)
        \/ RaceHourIncr(r)
        \/ RaceDayIncr(r)
        \/ RaceHourGet(r)
        \/ RaceHourSet(r)
        \/ RaceDayGet(r)
        \/ RaceDaySet(r)
        \/ Respond(r)

RaceInit ==
    /\ GovInit
    /\ req = [r \in Reqs |-> IdleReq]
    /\ sessions = EmptyDict
    /\ recent = <<>>
    /\ user_map = <<>>
    /\ fernet_key = "key"
    /\ avail = MethodNames
    /\ started = 0
    /\ chal_time = -1

SpecRace == RaceInit /\ [][RaceNext]_vars

(* C15: whatever the interleaving of the concurrent enforce_internal_cap   *)
(* calls of the caller in one hour bucket, once they have all returned the *)
(* hour counter equals the number of calls made (no update is lost), on    *)
(* the shared store and on the in-process dictionary.                      *)
C15_NoLostUpdate ==
    (\A r \in Reqs : req[r].pc \in {"idle", "done"})
    => HourCount(UserId) = calls_hour

---------------------------------------------------------------------------
(* SpecCrash: the session saves of connect_ig and search step by step.     *)
(* open(file_path, "w") and Path.write_text empty the file when they open  *)
(* it and write the text afterwards; the process may stop in between.      *)

MaxCrashRequests == 3   \* requests explored by SpecCrash

(* The empty file: no key decrypts it *)
Truncated == [key |-> NoKey, payload |-> NoSession]

OpenForWrite(files, slot) == Put(files, slot, Truncated)

CrashInit ==
    /\ GovInit
    /\ req = [r \in Reqs |-> IdleReq]
    /\ sessions = EmptyDict
    /\ recent = <<>>
    /\ user_map = <<>>
    /\ fernet_key = "key"
    /\ avail = {}
    /\ started = 0
    /\ chal_time = -1

CrashConnect ==
    /\ started < MaxCrashRequests
    /\ ConnectBegin(1, HandleA, FALSE)

CrashSearch ==
    /\ started < MaxCrashRequests
    /\ SearchBegin(1, "custom", 0, DefaultMaxF, <<0, 1>>, << <<"#", "x">> >>, <<>>)

(* connect_ig: client.login returned, the settings are encrypted and the   *)
(* slot is opened for writing                                              *)
LoginOpen(r) ==
    LET rq == [Called(req[r], NoExc) EXCEPT
                  !.logins = Append(@, [ok |-> TRUE, exc |-> NoExc]),
                  !.lret = LoginOutcome(req[r], TRUE, NoExc)]
    IN
    /\ req[r].pc = "login"
    /\ fernet_key # NoKey
    /\ sessions' = OpenForWrite(sessions, get_session_path(rq.user))
    /\ recent' = Touch(recent, get_session_path(rq.user))
    /\ Commit(r, [rq EXCEPT !.pc = "write", !.session = Settings(rq.user)])
    /\ UNCHANGED <<govVars, histVars, user_map, fernet_key, avail, started>>

(* search: the scan is over, the settings are encrypted and the slot is    *)
(* opened for writing                                                      *)
ScanOpen(r) ==
    LET rq == req[r] IN
    /\ rq.pc = "media"
    /\ Len(rq.results) >= Cap \/ rq.media_i > Len(rq.medias)
    /\ ~(Len(rq.results) < Cap /\ rq.tag_i < Len(rq.hashtags))
    /\ ~rq.session.mock
    /\ sessions' = OpenForWrite(sessions, get_session_path(rq.user))
    /\ recent' = Touch(recent, get_session_path(rq.user))
    /\ Commit(r, [rq EXCEPT !.pc = "write", !.session = Settings(rq.session.owner)])
    /\ UNCHANGED <<govVars, histVars, user_map, fernet_key, avail, started>>

(* The text is written and the file closed; the request returns *)
WriteClose(r) ==
    LET rq == [req[r] EXCEPT !.wrote = TRUE] IN
    /\ req[r].pc = "write"
    /\ sessions' = WriteSlot(sessions, get_session_path(rq.user), encrypt_session(rq.session))
    /\ IF rq.op = "connect"
       THEN /\ user_map' = rq.user
            /\ Commit(r, Finish(rq, Http(200, "connected")))
       ELSE /\ UNCHANGED user_map
            /\ Commit(r, Finish(rq, Http(200, "results")))
    /\ UNCHANGED <<govVars, histVars, recent, fernet_key, avail, started>>

(* The process stops and is started again: requests in flight and the      *)
(* in-process dictionaries are gone, the files and the shared store stay   *)
Crash ==
    /\ req' = [r \in Reqs |-> IdleReq]
    /\ memory_cap' = EmptyDict
    /\ pause_until' = EmptyDict
    /\ UNCHANGED <<now, backend, redis, histVars,
                   sessions, recent, user_map, fernet_key, avail, started, chal_time>>

CrashNext ==
    \/ CrashConnect
    \/ CrashSearch
    \/ LoginOpen(1)
    \/ SearchValidate(1, TRUE, NoExc)
    \/ FetchExhausted(1)
    \/ ScanOpen(1)
    \/ WriteClose(1)
    \/ Respond(1)
    \/ Crash

SpecCrash == CrashInit /\ [][CrashNext]_vars

(* C16: wherever the process stops during a session save, the slot then    *)
(* holds the complete previous or the complete new ciphertext: when no     *)
(* save is under way, no slot is empty or partly written.                  *)
C16_AtomicSave ==
    (\A r \in Reqs : req[r].pc # "write")
    => \A slot \in DOMAIN sessions : sessions[slot] # Truncated

---------------------------------------------------------------------------
(* SpecCap: consecutive enforce_internal_cap calls of the caller under a   *)
(* clock that moves to the next hour or to the start of the next day.      *)

CapCall ==
    /\ HourCount(UserId) < MaxHourCount
    /\ \E ret \in {"ok", "hourly", "daily"} :
          /\ EnforceInternalCap(UserId, ret)
          /\ last_ret' = ret
    /\ calls_hour' = calls_hour + 1
    /\ UNCHANGED <<now, backend, pause_until, last_pause, ticks, reqVars>>

CapTickHour ==
    /\ ticks < MaxCapTicks
    /\ Tick(now + HourSeconds)

CapTickDay ==
    /\ ticks < MaxCapTicks
    /\ Tick((now \div DaySeconds + 1) * DaySeconds)

CapNext == CapCall \/ CapTickHour \/ CapTickDay

GovOnlyInit == GovInit /\ ReqInit

SpecCap == GovOnlyInit /\ [][CapNext]_vars

---------------------------------------------------------------------------
(* C1: in an hour bucket that starts with no recorded attempts, each of    *)
(* the first HourlyCap calls returns ok while the day counter is within    *)
(* DailyCap, the (HourlyCap+1)-th call is rejected with the hourly reason, *)
(* and the hour counter counts every call made, the rejected one included. *)
C1_HourlyCeiling ==
    calls_hour >= 1 =>
        /\ (calls_hour <= HourlyCap + 1 => HourCount(UserId) = calls_hour)
        /\ (calls_hour <= HourlyCap /\ DayCount(UserId) <= DailyCap
                => last_ret = "ok")
        /\ (calls_hour = HourlyCap + 1
                => last_ret = "hourly" /\ HourCount(UserId) = HourlyCap + 1)

C1_Witness ==
    /\ calls_hour = HourlyCap + 1
    /\ last_ret = "hourly"
    /\ HourCount(UserId) = HourlyCap + 1

(* C2: every enforce_internal_cap call, whatever it returns, increments    *)
(* both the hour counter and the day counter of the caller by exactly one. *)
C2_BothCountersIncrement ==
    [][calls_hour' = calls_hour + 1 =>
          /\ HourCount(UserId)' = HourCount(UserId) + 1
          /\ DayCount(UserId)' = DayCount(UserId) + 1]_vars

---------------------------------------------------------------------------
(* SpecPause: pause_user and is_paused of the caller under a clock that    *)
(* advances by one second, half a day, a day less one second, or a day.    *)

PauseSteps == {1, PauseTTL \div 2, PauseTTL - 1, PauseTTL}

PauseCall ==
    /\ pause_user(UserId)
    /\ last_pause' = now
    /\ UNCHANGED <<now, backend, memory_cap, last_ret, calls_hour, ticks, reqVars>>

PauseTick ==
    /\ ticks < MaxPauseTicks
    /\ \E d \in PauseSteps : Tick(now + d)

PauseNext == PauseCall \/ PauseTick

SpecPause == GovOnlyInit /\ [][PauseNext]_vars

(* C3: is_paused is true from a pause_user call until 24 hours (86400 s)   *)
(* after the most recent pause_user call, and false from then on; a pause  *)
(* while already paused restarts the full period.                          *)
C3_PauseWindow ==
    is_paused(UserId) <=> (last_pause >= 0 /\ now < last_pause + 24 * 3600)

C3_Witness ==
    /\ last_pause > 0
    /\ now = last_pause + 24 * 3600
    /\ ~is_paused(UserId)

---------------------------------------------------------------------------
(* SpecLogin: connects of one handle, one after the other, for every class *)
(* and message of the failures of client.login.                            *)

MaxLogins == 2          \* connects explored by SpecLogin

LoginKinds == ExcKinds \cup {"BadPassword", "ValueError"}

LoginMsgs == { {}, {"Server Error"}, {"status code 5"}, {"validation error"} }

LoginStart ==
    /\ started < MaxLogins
    /\ ConnectBegin(1, HandleA, FALSE)

LoginOk == LoginCall(1, TRUE, NoExc)

LoginFail == \E k \in LoginKinds, m \in LoginMsgs : LoginCall(1, FALSE, Exc(k, m))

LoginNext == LoginStart \/ LoginOk \/ LoginFail \/ Respond(1)

SpecLogin == GovOnlyInit /\ [][LoginNext]_vars

Raised(exc) == [kind |-> "raise", val |-> <<>>, exc |-> exc]

(* C12: login_with_retry calls client.login at most retries + 1 = 3 times  *)
(* and then has ended; it calls again only after a failure classified as   *)
(* transient, with fewer than retries retries made; a failure that is not  *)
(* transient, or the failure of the third call, ends it with that same     *)
(* error, and a success ends it with the result of that call.              *)
C12_RetryBounded ==
    \A r \in Reqs :
        LET L == req[r].logins
            n == Len(L)
        IN
        /\ n <= Retries + 1
        /\ req[r].attempt <= Retries
        /\ \A j \in 1..(n - 1) : ~L[j].ok /\ is_retryable_server_error(L[j].exc)
        /\ req[r].lret.kind # "none" => req[r].pc # "login"
        /\ n > 0 =>
            /\ req[r].attempt = IF req[r].lret.kind = "none" THEN n ELSE n - 1
            /\ L[n].ok => req[r].lret = [kind |-> "value", val |-> <<>>, exc |-> NoExc]
            /\ (~L[n].ok /\ ~is_retryable_server_error(L[n].exc))
                  => req[r].lret = Raised(L[n].exc)
            /\ (~L[n].ok /\ n = Retries + 1) => req[r].lret = Raised(L[n].exc)
            /\ (~L[n].ok /\ is_retryable_server_error(L[n].exc) /\ n <= Retries)
                  => (req[r].lret.kind = "none" /\ req[r].pc = "login")

(* Three transient failures in a row: the third is surfaced *)
C12_Witness ==
    /\ Len(req[1].logins) = 3
    /\ \A j \in 1..3 : is_retryable_server_error(req[1].logins[j].exc)
    /\ req[1].logins[3].exc = Exc("Exception", {"status code 5"})
    /\ req[1].logins[2].exc # req[1].logins[3].exc
    /\ req[1].lret = Raised(Exc("Exception", {"status code 5"}))
    /\ req[1].pc = "done"

NeverRetried ==
    {"ChallengeRequired", "LoginRequired", "ClientLoginRequired", "BadPassword", "ValueError"}

(* C13: an authentication failure, a challenge response or a malformed-    *)
(* input error of client.login is never retried, whatever its message:     *)
(* login_with_retry has then called client.login exactly once and raises   *)
(* that error.                                                             *)
C13_NeverRetriesAuthFailures ==
    \A r \in Reqs : \A j \in 1..Len(req[r].logins) :
        req[r].logins[j].exc.kind \in NeverRetried
        =>  /\ Len(req[r].logins) = 1
            /\ req[r].lret = Raised(req[r].logins[j].exc)

=============================================================================
